---- MODULE Spec2Model ----
(***************************************************************************)
(* A model of scripts/cost-monitor.js: one run of the script, from main()  *)
(* to the exit of the process; and of the contact form of the site's page  *)
(* scripts (main.js and its earlier version).                              *)
(*                                                                         *)
(* Money is counted in mils (1/1000 USD): the billing API returns amounts  *)
(* with more than two decimals, and toFixed(2) rounds them to cents.       *)
(* A number printed by toFixed(2) is held as its value in cents, one       *)
(* printed by toFixed(1) as its value in tenths inside a one-element       *)
(* sequence, <<>> standing for the text that is not a number ("NaN",       *)
(* "N/A").  Arithmetic is exact: the amounts and limits drawn below are    *)
(* such that no sum ends in half a cent and every percentage is a whole    *)
(* number of thousandths of a percent, so that rounding of binary floating *)
(* point never decides a comparison.                                       *)
(*                                                                         *)
(* Time is counted in hours since 2023-12-01T00:00Z; a date is a record    *)
(* [month, day] with month counted from December 2023 (0).                 *)
(***************************************************************************)
EXTENDS Integers, Sequences, FiniteSets, TLC

VARIABLES
    args,            \* process.argv.slice(2), as the set of flags given
    budgetLimit,     \* CONFIG.budgetLimit, in mils
    topicArn,        \* process.env.SNS_ALERT_TOPIC ("" when unset)
    accountId,       \* CONFIG.accountId: <<>> until cached
    pc,              \* where the process is
    exitCode,        \* -1 while running
    started,         \* the commands main() has called, in order
    finished,        \* the commands that have returned to main()
    currentCosts,    \* the running command's getCurrentMonthCosts() call
    dailyCosts,      \* generateCostReport's getDailyCosts() call
    forecast,        \* generateCostReport's getCostForecast() call
    budget,          \* generateCostReport's getBudgetInfo() call
    failures,        \* the external calls that failed in the running command
    report,          \* the value generateCostReport returned: <<>> or <<r>>
    written,         \* the argument of the command's fs.writeFileSync call
    fileWrites,      \* the number of fs.writeFileSync calls that succeeded
    level,           \* checkCostAlerts' classification ("" before it)
    sendAlertCalls,  \* the number of sendAlert calls
    publish,         \* the sns.publish call: idle, pending, ok, failed
    publishCalls,    \* the number of sns.publish calls
    recommendations, \* generateOptimizationReport's recommendations
    now,             \* the clock (new Date()), in hours
    tzOffset,        \* the machine's offset from UTC, in hours
    costQuery,       \* getCurrentMonthCosts' TimePeriod: <<>> or <<p>>
    dailyQuery,      \* getDailyCosts' TimePeriod
    forecastQuery,   \* getCostForecast's TimePeriod
    script,          \* the script the page loads
    fields,          \* the value of each input of contactForm
    redBorders,      \* the inputs whose style.borderColor is '#ff6b6b'
    formMessage,     \* formMessage: className, textContent, style.display
    submitButton,    \* the submit button: innerHTML and disabled
    request,         \* the fetch in flight, and what its handlers closed over
    fetchCalls,      \* the number of fetch calls
    submits,         \* the number of submit events handled
    timers,          \* the number of setTimeout callbacks pending
    lookups,         \* each call of getBudgetInfo by a user of the module
    stsFetched,      \* the accounts sts.getCallerIdentity has answered them
    navMenu,         \* navMenu.classList
    icon,            \* the classList of the <i> of navToggle
    stats,           \* the '.stat h3' elements: text, intervals, animations
    observing,       \* statsObserver observes statsSection
    shCommand,       \* the wrapper's first argument: <<>> or <<word>>
    shEnv,           \* the machine the wrapper runs on
    shPc,            \* where the wrapper is
    shOutput,        \* the lines the wrapper has printed
    shNode,          \* the arguments node cost-monitor.js was run with
    shStatus,        \* the exit status of the wrapper (-1 while it runs)
    document,        \* the page validateSecurity looks at
    results          \* what validateSecurity returned: <<>> or <<results>>

runVars == <<args, budgetLimit, topicArn, accountId, pc,
             exitCode, started, finished, currentCosts, dailyCosts, forecast,
             budget, failures, report, written, fileWrites, level,
             sendAlertCalls, publish, publishCalls, recommendations>>

dateVars == <<now, tzOffset, costQuery, dailyQuery, forecastQuery>>

pageVars == <<script, fields, redBorders, formMessage, submitButton, request,
              fetchCalls, submits, timers>>

libVars == <<lookups, stsFetched>>

\* The state outside the run of the script and the contact form.
navVars == <<navMenu, icon>>

statsVars == <<stats, observing>>

wrapperVars == <<shCommand, shEnv, shPc, shOutput, shNode, shStatus>>

securityVars == <<document, results>>

siteVars == <<libVars, navVars, statsVars, wrapperVars, securityVars>>

vars == <<runVars, dateVars, pageVars, siteVars>>

----------------------------------------------------------------------------
(* Bounds of the model.                                                    *)

\* The most groups (services) one billing API answer holds.
MaxGroups == 2

\* The most entries one daily answer holds.
MaxDays == 8

----------------------------------------------------------------------------
(* CONFIG                                                                  *)

\* CONFIG.alertThreshold, 0.8, in tenths.
alertThreshold == 8

\* CONFIG.services
services == <<"Amazon Amplify", "Amazon CloudFront", "Amazon Route 53",
              "AWS Certificate Manager", "Amazon CloudWatch", "Amazon S3">>

\* CONFIG.appName, with APP_NAME unset
appName == "slightbuild"

\* parseFloat(process.env.COST_BUDGET_LIMIT) || 10.0: the default, and
\* COST_BUDGET_LIMIT=5.
BudgetLimits == {5000, 10000}

\* process.env.SNS_ALERT_TOPIC: unset, or the ARN of a topic.
TopicArns == {"", "arn:aws:sns:us-east-1:123456789012:cost-alerts"}

\* The flags the script is run with: none, one, and more than one.
ArgsInputs == {{}, {"--report"}, {"--alert"}, {"--optimize"},
               {"--alert", "--optimize"}, {"--report", "--alert", "--optimize"}}

----------------------------------------------------------------------------
(* What the external services may answer.                                  *)

\* The services an answer may hold a group for (their places in
\* CONFIG.services): the three that generateOptimizationReport knows, and one
\* it does not.
ApiServices == {1, 2, 3, 6}

\* The amounts (mils) each may be billed: nothing, under half a cent, 1.00,
\* 2.00 and 8.00 USD.
Amounts(svc) ==
    CASE svc = 1 -> {0, 4, 2000, 8000}
      [] svc = 2 -> {0, 4, 1000, 2000, 8000}
      [] svc = 3 -> {1000, 2000}
      [] OTHER -> {4}

GroupRecs == UNION {{[svc |-> v, Amount |-> a] : a \in Amounts(v)} : v \in ApiServices}

\* An answer holds each service once, in the order of CONFIG.services.
GroupSeqs(n) ==
    {g \in [1..n -> GroupRecs] :
        \A i \in 1..n : \A j \in 1..n : i < j => g[i].svc < g[j].svc}

\* ResultsByTime[0].Groups: each group's Keys[0] and Metrics.BlendedCost.Amount
GroupsInputs ==
    UNION {{[i \in 1..n |-> [Keys |-> services[g[i].svc], Amount |-> g[i].Amount]] :
               g \in GroupSeqs(n)} : n \in 0..MaxGroups}

\* ResultsByTime of the daily query: day i of the month, and its total.
DailyInputs ==
    {[i \in 1..n |-> [Start |-> i, Amount |-> IF i % 2 = 0 THEN 4 ELSE 1000]] :
        n \in {0, 3, MaxDays}}

\* ForecastResultsByTime: each entry's MeanValue.
ForecastInputs == {<<>>, <<[MeanValue |-> 12004]>>}

\* The budget names describeBudgets may list.
BudgetLists == {<<>>, <<"other">>, <<"other", "slightbuild-budget">>,
                <<"monthly-budget-2024">>}

\* String.prototype.includes, for the names above.
Includes(name, part) ==
    \/ part = "slightbuild" /\ name = "slightbuild-budget"
    \/ part = "monthly-budget" /\ name = "monthly-budget-2024"

\* sts.getCallerIdentity().Account
TheAccount == "123456789012"

----------------------------------------------------------------------------
(* The calendar.                                                           *)

\* Days of December 2023 to June 2024.
MonthLen == <<31, 31, 29, 31, 30, 31, 30>>

RECURSIVE MonthStart(_)
\* The day number of the first day of month m.
MonthStart(m) == IF m = 0 THEN 0 ELSE MonthStart(m - 1) + MonthLen[m]

\* The date of day number d.
DateOfDay(d) ==
    LET m == CHOOSE k \in 0..(Len(MonthLen) - 1) :
                 MonthStart(k) <= d /\ d < MonthStart(k + 1)
    IN  [month |-> m, day |-> d - MonthStart(m) + 1]

\* new Date(year, month, day): midnight of that day in local time. A day of 0
\* is the last day of the month before.
NewDate(m, d, tz) == (MonthStart(m) + d - 1) * 24 - tz

\* now.getFullYear(), now.getMonth(): the month in local time
GetMonth(t, tz) == DateOfDay((t + tz) \div 24).month

\* date.toISOString().split('T')[0]: the date in UTC
ToISODate(t) == DateOfDay(t \div 24)

\* date.toISOString().substring(0, 7): the month in UTC
ToISOMonth(t) == DateOfDay(t \div 24).month

----------------------------------------------------------------------------
(* The time periods of the queries.                                        *)

\* getCurrentMonthCosts' TimePeriod
CurrentMonthPeriod(t, tz) ==
    LET startOfMonth == NewDate(GetMonth(t, tz), 1, tz)
        startOfNextMonth == NewDate(GetMonth(t, tz) + 1, 1, tz)
    IN  [Start |-> ToISODate(startOfMonth), End |-> ToISODate(startOfNextMonth)]

\* getDailyCosts' TimePeriod
DailyPeriod(t, tz) ==
    LET startOfMonth == NewDate(GetMonth(t, tz), 1, tz)
        today == t
    IN  [Start |-> ToISODate(startOfMonth), End |-> ToISODate(today)]

\* getCostForecast's TimePeriod
ForecastPeriod(t, tz) ==
    LET startOfNextMonth == NewDate(GetMonth(t, tz) + 1, 1, tz)
        endOfNextMonth == NewDate(GetMonth(t, tz) + 2, 0, tz)
    IN  [Start |-> ToISODate(startOfNextMonth), End |-> ToISODate(endOfNextMonth)]

----------------------------------------------------------------------------
(* Numbers.                                                                *)

\* x / y rounded to the nearest whole number, halves up (y > 0, x >= 0).
RoundDiv(x, y) == (2 * x + y) \div (2 * y)

\* (mils).toFixed(2), in cents
ToFixed2(mils) == RoundDiv(mils, 10)

RECURSIVE SumAmounts(_)
SumAmounts(groups) ==
    IF groups = <<>> THEN 0
    ELSE SumAmounts(SubSeq(groups, 1, Len(groups) - 1)) + groups[Len(groups)].Amount

\* TotalCost with a reduce that passes over the first group.
TotalCostFromSecond(groups) == IF groups = <<>> THEN 0 ELSE SumAmounts(Tail(groups))

\* currentCosts.Groups.reduce((sum, group) => sum + parseFloat(...Amount), 0)
TotalCost(groups) == SumAmounts(groups)

\* (totalCost / CONFIG.budgetLimit) * 100, in thousandths of a percent
PercentageUsed(totalCost, limit) == (totalCost * 100 * 1000) \div limit

\* CONFIG.alertThreshold * 100, in thousandths of a percent
ThresholdPercent == alertThreshold * 10 * 1000

\* CONFIG.budgetLimit * CONFIG.alertThreshold, in mils
ThresholdCost(limit) == (limit * alertThreshold) \div 10

----------------------------------------------------------------------------
(* The calls of the external services: idle, pending, or done with the     *)
(* value the calling function returned.                                    *)

Idle == [st |-> "idle", val |-> <<>>]
Pending == [st |-> "pending", val |-> <<>>]
Done(v) == [st |-> "done", val |-> v]

\* What getCurrentMonthCosts returns: result.ResultsByTime[0] || {Groups: []},
\* and {Groups: []} when the query failed.
CurrentMonthCostsResult(ok, groups) == IF ok THEN groups ELSE <<>>

\* What getDailyCosts returns: result.ResultsByTime || [], and [] on failure.
DailyCostsResult(ok, days) == IF ok THEN days ELSE <<>>

\* What getCostForecast returns (its ForecastResultsByTime), [] on failure.
CostForecastResult(ok, entries) == IF ok THEN entries ELSE <<>>

\* What getBudgetInfo returns once describeBudgets has answered: the first
\* budget whose name includes the application's name or 'monthly-budget' (in a
\* one-element sequence), <<>> for undefined (none matches) and null (failure).
BudgetInfoResult(ok, names) ==
    LET hits == {i \in 1..Len(names) :
                    Includes(names[i], appName) \/ Includes(names[i], "monthly-budget")}
    IN  IF ok /\ hits # {}
        THEN <<names[CHOOSE i \in hits : \A j \in hits : i <= j]>>
        ELSE <<>>

----------------------------------------------------------------------------
(* generateCostReport                                                      *)

\* ReportStatus with >= for >: exactly 80% would be WARNING.
ReportStatusAtLeast(totalCost, limit) ==
    IF totalCost >= ThresholdCost(limit) THEN "WARNING" ELSE "OK"

\* summary.status
ReportStatus(totalCost, limit) ==
    IF totalCost > ThresholdCost(limit) THEN "WARNING" ELSE "OK"

\* BudgetUsed without the test of the budget record.
BudgetUsedUntested(bud, totalCost, limit) ==
    <<RoundDiv(totalCost * 1000, limit)>>

\* summary.budgetUsed: ((totalCost / limit) * 100).toFixed(1), or 'N/A' (<<>>)
BudgetUsed(bud, totalCost, limit) ==
    IF bud # <<>> THEN <<RoundDiv(totalCost * 1000, limit)>> ELSE <<>>

\* ((amount / totalCost) * 100).toFixed(1); 0 / 0 is NaN (<<>>)
Percentage(amount, totalCost) ==
    IF totalCost = 0 THEN <<>> ELSE <<RoundDiv(amount * 1000, totalCost)>>

\* report.serviceBreakdown
ServiceBreakdown(groups, totalCost) ==
    [i \in 1..Len(groups) |->
        [service |-> groups[i].Keys,
         cost |-> ToFixed2(groups[i].Amount),
         percentage |-> Percentage(groups[i].Amount, totalCost)]]

\* SliceLast taking the first n entries: array.slice(0, n).
SliceFirst(seq, n) ==
    IF Len(seq) <= n THEN seq ELSE SubSeq(seq, 1, n)

\* array.slice(-n)
SliceLast(seq, n) ==
    IF Len(seq) <= n THEN seq ELSE SubSeq(seq, Len(seq) - n + 1, Len(seq))

\* report.dailyTrend
DailyTrend(days) ==
    LET last == SliceLast(days, 7)
    IN  [i \in 1..Len(last) |->
            [date |-> last[i].Start, cost |-> ToFixed2(last[i].Amount)]]

\* report.forecast: null is <<>>
ForecastField(entries) ==
    IF Len(entries) > 0
    THEN <<[nextMonth |-> ToFixed2(entries[1].MeanValue), confidence |-> "Medium"]>>
    ELSE <<>>

\* report.summary
Summary(groups, bud, limit) ==
    LET totalCost == TotalCost(groups)
    IN  [totalCost |-> ToFixed2(totalCost),
         budgetLimit |-> limit,
         budgetUsed |-> BudgetUsed(bud, totalCost, limit),
         status |-> ReportStatus(totalCost, limit)]

\* MakeReport with a summary that counts the forecast into the total when
\* there is one.
MakeReportForecastCounted(groups, days, entries, bud, limit, t) ==
    [timestamp |-> t,
     period |-> ToISOMonth(t),
     summary |-> Summary(groups \o [i \in 1..Len(entries) |->
                                       [Keys |-> "forecast", Amount |-> entries[i].MeanValue]],
                         bud, limit),
     serviceBreakdown |-> ServiceBreakdown(groups, TotalCost(groups)),
     dailyTrend |-> DailyTrend(days),
     forecast |-> ForecastField(entries)]

\* The report object.
MakeReport(groups, days, entries, bud, limit, t) ==
    [timestamp |-> t,
     period |-> ToISOMonth(t),
     summary |-> Summary(groups, bud, limit),
     serviceBreakdown |-> ServiceBreakdown(groups, TotalCost(groups)),
     dailyTrend |-> DailyTrend(days),
     forecast |-> ForecastField(entries)]

\* JSON text is held as the tree of its tokens: a string is written between
\* quotes, a number bare, null as the word.
JsonString(s) == [json |-> "string", v |-> s]
JsonNumber(n) == [json |-> "number", v |-> n]
JsonNull == [json |-> "null", v |-> 0]

\* JSON.stringify(report, null, 2): every field of the report is a string but
\* summary.budgetLimit, a number, and forecast, an object or null.
JsonStringify(r) ==
    [timestamp |-> JsonString(r.timestamp),
     period |-> JsonString(r.period),
     summary |-> [totalCost |-> JsonString(r.summary.totalCost),
                  budgetLimit |-> JsonNumber(r.summary.budgetLimit),
                  budgetUsed |-> JsonString(r.summary.budgetUsed),
                  status |-> JsonString(r.summary.status)],
     serviceBreakdown |->
         [i \in 1..Len(r.serviceBreakdown) |->
             [service |-> JsonString(r.serviceBreakdown[i].service),
              cost |-> JsonString(r.serviceBreakdown[i].cost),
              percentage |-> JsonString(r.serviceBreakdown[i].percentage)]],
     dailyTrend |->
         [i \in 1..Len(r.dailyTrend) |->
             [date |-> JsonString(r.dailyTrend[i].date),
              cost |-> JsonString(r.dailyTrend[i].cost)]],
     forecast |->
         IF r.forecast = <<>>
         THEN JsonNull
         ELSE [nextMonth |-> JsonString(r.forecast[1].nextMonth),
               confidence |-> JsonString(r.forecast[1].confidence)]]

\* The value a reader of the file gets for a string, a number or null.
JsonValue(token) == IF token.json = "null" THEN <<>> ELSE token.v

\* JSON.parse of the text written.
JsonParse(text) ==
    [timestamp |-> JsonValue(text.timestamp),
     period |-> JsonValue(text.period),
     summary |-> [totalCost |-> JsonValue(text.summary.totalCost),
                  budgetLimit |-> JsonValue(text.summary.budgetLimit),
                  budgetUsed |-> JsonValue(text.summary.budgetUsed),
                  status |-> JsonValue(text.summary.status)],
     serviceBreakdown |->
         [i \in 1..Len(text.serviceBreakdown) |->
             [service |-> JsonValue(text.serviceBreakdown[i].service),
              cost |-> JsonValue(text.serviceBreakdown[i].cost),
              percentage |-> JsonValue(text.serviceBreakdown[i].percentage)]],
     dailyTrend |->
         [i \in 1..Len(text.dailyTrend) |->
             [date |-> JsonValue(text.dailyTrend[i].date),
              cost |-> JsonValue(text.dailyTrend[i].cost)]],
     forecast |->
         IF "json" \in DOMAIN text.forecast
         THEN <<>>
         ELSE <<[nextMonth |-> JsonValue(text.forecast.nextMonth),
                 confidence |-> JsonValue(text.forecast.confidence)]>>]

\* `cost-report-${period}.json`
FileName(period) == <<"cost-report-", period, ".json">>

\* ReportFile with a name made from the number of the month after
\* (getMonth() + 1 read as the month before it).
ReportFileMonthAfter(r) ==
    [name |-> FileName(r.period + 1), content |-> JsonStringify(r)]

\* The file written: its name and its content.
ReportFile(r) == [name |-> FileName(r.period), content |-> JsonStringify(r)]

----------------------------------------------------------------------------
(* checkCostAlerts and sendAlert                                           *)

\* AlertLevel with > for >= in the WARNING branch: exactly 80% would be OK.
AlertLevelAbove(percentageUsed) ==
    IF percentageUsed >= 100 * 1000 THEN "CRITICAL"
    ELSE IF percentageUsed > ThresholdPercent THEN "WARNING"
    ELSE "OK"

\* The branch checkCostAlerts takes.
AlertLevel(percentageUsed) ==
    IF percentageUsed >= 100 * 1000 THEN "CRITICAL"
    ELSE IF percentageUsed >= ThresholdPercent THEN "WARNING"
    ELSE "OK"

\* CallsSendAlert with the call missing from the WARNING branch.
CallsSendAlertOnCritical(lvl) == lvl = "CRITICAL"

\* Whether the branch calls sendAlert.
CallsSendAlert(lvl) == lvl \in {"CRITICAL", "WARNING"}

\* TopicConfigured without the early return.
TopicNotTested(topic) == TRUE

\* sendAlert's test of the topic: !topicArn returns early.
TopicConfigured(topic) == topic # ""

\* PublishErrorCaught without the try/catch: the error reaches checkCostAlerts.
PublishErrorEscapes == FALSE

\* sendAlert's try/catch around sns.publish: the error is logged, not rethrown.
PublishErrorCaught == TRUE

----------------------------------------------------------------------------
(* generateOptimizationReport                                              *)

\* Recommends with each threshold reached rather than passed.
RecommendsAtThreshold(service, cost) ==
    \/ service = "Amazon Amplify" /\ cost >= 2000
    \/ service = "Amazon CloudFront" /\ cost >= 1000
    \/ service = "Amazon Route 53" /\ cost >= 1000

\* The switch over the service, and each case's threshold.
Recommends(service, cost) ==
    \/ service = "Amazon Amplify" /\ cost > 2000
    \/ service = "Amazon CloudFront" /\ cost > 1000
    \/ service = "Amazon Route 53" /\ cost > 1000

\* The recommendations, in the order of the groups.
Recommendations(groups) ==
    SelectSeq([i \in 1..Len(groups) |->
                  [service |-> groups[i].Keys, cost |-> ToFixed2(groups[i].Amount),
                   recommend |-> Recommends(groups[i].Keys, groups[i].Amount)]],
              LAMBDA r : r.recommend)

----------------------------------------------------------------------------
(* main                                                                    *)

\* Commands with an --alert branch that falls through to the optimization.
CommandsAlertFallsThrough(flags) ==
    IF "--report" \in flags THEN <<"report">>
    ELSE IF "--alert" \in flags THEN <<"alert", "optimize">>
    ELSE IF "--optimize" \in flags THEN <<"optimize">>
    ELSE <<"report", "alert", "optimize">>

\* The commands main() runs for the flags given.
Commands(flags) ==
    IF "--report" \in flags THEN <<"report">>
    ELSE IF "--alert" \in flags THEN <<"alert">>
    ELSE IF "--optimize" \in flags THEN <<"optimize">>
    ELSE <<"report", "alert", "optimize">>

\* GuardExits with catch blocks that log the error and return.
GuardReturns == FALSE

\* Whether a command's catch block ends the process (process.exit(1)).
GuardExits == TRUE

----------------------------------------------------------------------------
(* The contact form of the page (main.js, and its earlier version, whose   *)
(* handler sends nothing). A text is the sequence of its characters.       *)

\* The most submit events handled in a run of the page.
MaxSubmits == 3

\* The scripts a page may load.
Scripts == {"main.js", "unnamed/part_000"}

\* requiredFields without the message.
requiredFieldsButMessage == {"firstName", "lastName", "email", "projectType"}

\* The inputs a submit needs filled.
requiredFields == {"firstName", "lastName", "email", "projectType", "message"}

\* The inputs of the form that the handlers read.
FieldNames == {"firstName", "lastName", "email", "phone", "projectType", "message"}

\* What the visitor may leave in each input.
FieldInputs(field) ==
    CASE field = "firstName" -> {<<>>, <<" ">>, <<"a">>}
      [] field = "email" ->
            {<<>>, <<"a", "@", "b", ".", "c">>, <<" ", "a", "@", "b", ".", "c">>,
             <<"a", "@", "b">>, <<"a", "@", ".", "c">>}
      [] field = "phone" -> {<<>>, <<"1", "-", "1">>, <<"a">>}
      [] OTHER -> {<<>>, <<"a">>}

\* /\s/
IsSpace(c) == c = " "

\* value.trim()
Trim(s) ==
    LET inked == {i \in 1..Len(s) : ~IsSpace(s[i])}
    IN  IF inked = {} THEN <<>>
        ELSE SubSeq(s, CHOOSE i \in inked : \A j \in inked : i <= j,
                       CHOOSE i \in inked : \A j \in inked : i >= j)

\* /^[^\s@]+@[^\s@]+\.[^\s@]+$/.test(s): one "@" with a character before it,
\* a "." after it with a character on each side, and no space anywhere.
EmailRegexTest(s) ==
    \E at \in 2..Len(s) :
        /\ s[at] = "@"
        /\ \A k \in 1..Len(s) : k # at => (~IsSpace(s[k]) /\ s[k] # "@")
        /\ \E dot \in (at + 2)..(Len(s) - 1) : s[dot] = "."

\* /^[\d\s\-\+\(\)]+$/.test(s)
PhoneRegexTest(s) ==
    /\ s # <<>>
    /\ \A k \in 1..Len(s) : s[k] \in {"1", " ", "-", "+", "(", ")"}

\* data: main.js trims every value, the earlier version keeps them as typed.
FormData(values, page) ==
    [f \in FieldNames |-> IF page = "main.js" THEN Trim(values[f]) ELSE values[f]]

\* The inputs main.js marks: the required ones left empty, and the email when
\* it is given and does not match.
Marked(data) ==
    {f \in requiredFields : data[f] = <<>>}
        \cup (IF data.email # <<>> /\ ~EmailRegexTest(data.email) THEN {"email"} ELSE {})

\* isValid, at the end of the validation of each handler.
IsValid(data, page) ==
    IF page = "main.js"
    THEN Marked(data) = {}
    ELSE /\ \A f \in requiredFields : data[f] # <<>> /\ Trim(data[f]) # <<>>
         /\ data.email # <<>> => EmailRegexTest(data.email)
         /\ data.phone # <<>> => PhoneRegexTest(data.phone)

\* The texts of formMessage.
ThankYou == "Thank you for your message! We'll get back to you within 24 hours."
FillInAll == "Please fill in all required fields correctly."
SendError == "Sorry, there was an error sending your message. Please try again or contact us directly."

\* The answers of the contact API: the parsed body, <<>> when fetch or
\* response.json() rejects.
Results ==
    {<<>>,
     <<[success |-> TRUE, message |-> "Message received"]>>,
     <<[success |-> TRUE, message |-> ""]>>,
     <<[success |-> FALSE, message |-> "Failed to send message"]>>}

\* The page as loaded.
PageLoaded ==
    /\ fields = [f \in FieldNames |-> <<>>]
    /\ redBorders = {}
    /\ formMessage = [className |-> "form-message", textContent |-> "", display |-> ""]
    /\ submitButton = [innerHTML |-> "Send Message", disabled |-> FALSE]
    /\ request = <<>>
    /\ fetchCalls = 0
    /\ submits = 0
    /\ timers = 0

\* No page is open while the cost monitor runs.
PageInit == script = "main.js" /\ PageLoaded

----------------------------------------------------------------------------
(* The module used as a library: module.exports gives generateCostReport   *)
(* to callers that may call it again before an earlier call has returned.  *)

\* The calls of generateCostReport a user of the module makes.
MaxInvocations == 3

Invocations == 1..MaxInvocations

\* No user of the module has called it.
LibInit ==
    /\ lookups = [i \in Invocations |-> Idle]
    /\ stsFetched = 0

\* The menu closed, showing the bars.
NavInit ==
    /\ navMenu = {"nav-menu"}
    /\ icon = {"fas", "fa-bars"}

\* A page without a stats section.
NoStats ==
    /\ stats = <<>>
    /\ observing = FALSE

\* The wrapper is not run.
WrapperIdle ==
    /\ shCommand = <<>>
    /\ shEnv = [node |-> 18, modules |-> TRUE, npm |-> TRUE, aws |-> "configured",
                exit |-> 0]
    /\ shPc = "idle"
    /\ shOutput = <<>>
    /\ shNode = <<>>
    /\ shStatus = -1

\* No page is validated.
NoDocument ==
    /\ document = [https |-> TRUE, inlineScripts |-> FALSE,
                   inlineStyles |-> FALSE, externalLinks |-> <<>>]
    /\ results = <<>>

\* The state outside the run and the form, as it is when nothing uses it.
SiteInit == LibInit /\ NavInit /\ NoStats /\ WrapperIdle /\ NoDocument

----------------------------------------------------------------------------
(* The run of the script.                                                  *)

\* The clock of the runs of Spec: 2024-01-11T10:00Z.
RunClock == NewDate(1, 11, 0) + 10

RunInit ==
    /\ accountId = <<>>
    /\ pc = "main"
    /\ exitCode = -1
    /\ started = <<>>
    /\ finished = <<>>
    /\ currentCosts = Idle
    /\ dailyCosts = Idle
    /\ forecast = Idle
    /\ budget = Idle
    /\ failures = {}
    /\ report = <<>>
    /\ written = <<>>
    /\ fileWrites = 0
    /\ level = ""
    /\ sendAlertCalls = 0
    /\ publish = "idle"
    /\ publishCalls = 0
    /\ recommendations = <<>>

Init ==
    /\ args \in ArgsInputs
    /\ budgetLimit \in BudgetLimits
    /\ topicArn \in TopicArns
    /\ RunInit
    /\ now = RunClock
    /\ tzOffset = 0
    /\ costQuery = <<>>
    /\ dailyQuery = <<>>
    /\ forecastQuery = <<>>
    /\ PageInit
    /\ SiteInit

config == <<args, budgetLimit, topicArn>>

\* The command main() calls next.
NextCommand == Commands(args)[Len(started) + 1]

CanStart(cmd) ==
    /\ pc = "main"
    /\ Len(finished) = Len(started)
    /\ Len(started) < Len(Commands(args))
    /\ NextCommand = cmd

\* Throw with a catch block that ends the process with process.exit(0).
ThrowExitsClean ==
    /\ pc' = "exited"
    /\ exitCode' = 0
    /\ currentCosts' = Idle
    /\ dailyCosts' = Idle
    /\ forecast' = Idle
    /\ budget' = Idle

\* An exception reaches the running command's catch block: process.exit(1)
\* ends the process, and the calls still pending with it.
Throw ==
    /\ IF GuardExits
       THEN pc' = "exited" /\ exitCode' = 1
       ELSE pc' = "returned" /\ exitCode' = exitCode
    /\ currentCosts' = Idle
    /\ dailyCosts' = Idle
    /\ forecast' = Idle
    /\ budget' = Idle

\* main() calls generateCostReport, which calls the four fetches of its
\* Promise.all; each runs to its first await. getBudgetInfo awaits
\* getAccountId first, which calls STS unless CONFIG.accountId is cached.
StartReport ==
    /\ CanStart("report")
    /\ started' = Append(started, "report")
    /\ pc' = "report"
    /\ currentCosts' = Pending
    /\ dailyCosts' = Pending
    /\ forecast' = Pending
    /\ budget' = [st |-> IF accountId = <<>> THEN "sts" ELSE "describe", val |-> <<>>]
    /\ UNCHANGED <<config, accountId, exitCode, finished,
                   failures, report, written, fileWrites, level, sendAlertCalls,
                   publish, publishCalls, recommendations, dateVars, pageVars,
                   siteVars>>

reportFrame == <<config, exitCode, started, finished, report,
                 written, fileWrites, level, sendAlertCalls, publish,
                 publishCalls, recommendations, dateVars, pageVars,
                   siteVars>>

\* The current-period query of the report answers or fails.
ReportCostsReturn ==
    /\ pc = "report"
    /\ currentCosts.st = "pending"
    /\ \/ \E g \in GroupsInputs :
            /\ currentCosts' = Done(CurrentMonthCostsResult(TRUE, g))
            /\ failures' = failures
       \/ /\ currentCosts' = Done(CurrentMonthCostsResult(FALSE, <<>>))
          /\ failures' = failures \cup {"cost"}
    /\ UNCHANGED <<reportFrame, accountId, pc, dailyCosts, forecast, budget>>

\* The daily query answers or fails.
DailyCostsReturn ==
    /\ pc = "report"
    /\ dailyCosts.st = "pending"
    /\ \/ \E d \in DailyInputs :
            /\ dailyCosts' = Done(DailyCostsResult(TRUE, d))
            /\ failures' = failures
       \/ /\ dailyCosts' = Done(DailyCostsResult(FALSE, <<>>))
          /\ failures' = failures \cup {"daily"}
    /\ UNCHANGED <<reportFrame, accountId, pc, currentCosts, forecast, budget>>

\* The forecast query answers or fails.
ForecastReturn ==
    /\ pc = "report"
    /\ forecast.st = "pending"
    /\ \/ \E f \in ForecastInputs :
            /\ forecast' = Done(CostForecastResult(TRUE, f))
            /\ failures' = failures
       \/ /\ forecast' = Done(CostForecastResult(FALSE, <<>>))
          /\ failures' = failures \cup {"forecast"}
    /\ UNCHANGED <<reportFrame, accountId, pc, currentCosts, dailyCosts, budget>>

\* sts.getCallerIdentity answers: getAccountId caches the account and
\* getBudgetInfo calls describeBudgets. Or it fails: getBudgetInfo awaits
\* getAccountId outside its try block, so its promise rejects, Promise.all
\* rejects and generateCostReport's catch block runs.
GetCallerIdentityReturn ==
    /\ pc = "report"
    /\ budget.st = "sts"
    /\ \/ /\ accountId' = <<TheAccount>>
          /\ budget' = [st |-> "describe", val |-> <<>>]
          /\ UNCHANGED <<pc, exitCode, failures, currentCosts, dailyCosts, forecast>>
       \/ /\ failures' = failures \cup {"sts"}
          /\ Throw
          /\ UNCHANGED accountId
    /\ UNCHANGED <<config, started, finished, report, written,
                   fileWrites, level, sendAlertCalls, publish, publishCalls,
                   recommendations, dateVars, pageVars,
                   siteVars>>

\* budgets.describeBudgets answers or fails.
DescribeBudgetsReturn ==
    /\ pc = "report"
    /\ budget.st = "describe"
    /\ \/ \E names \in BudgetLists :
            /\ budget' = Done(BudgetInfoResult(TRUE, names))
            /\ failures' = failures
       \/ /\ budget' = Done(BudgetInfoResult(FALSE, <<>>))
          /\ failures' = failures \cup {"budget"}
    /\ UNCHANGED <<reportFrame, accountId, pc, currentCosts, dailyCosts, forecast>>

\* BuildReport without Promise.all: the report is built once the cost query
\* has answered, from whatever the other three have returned by then.
BuildReportEarly ==
    /\ pc = "report"
    /\ currentCosts.st = "done"
    /\ LET r == MakeReport(currentCosts.val, dailyCosts.val, forecast.val,
                           budget.val, budgetLimit, now)
       IN  /\ report' = <<r>>
           /\ written' = <<ReportFile(r)>>
           /\ fileWrites' = fileWrites + 1
           /\ pc' = "returned"
           /\ UNCHANGED <<exitCode, failures, currentCosts, dailyCosts,
                          forecast, budget>>
    /\ UNCHANGED <<config, accountId, started, finished, level, sendAlertCalls,
                   publish, publishCalls, recommendations, dateVars, pageVars,
                   siteVars>>

\* Promise.all has resolved: generateCostReport builds the report, prints it,
\* creates the output directory if it is missing, writes the file and returns
\* the report. A failure of fs.mkdirSync or fs.writeFileSync is thrown into
\* its catch block.
BuildReport ==
    /\ pc = "report"
    /\ currentCosts.st = "done"
    /\ dailyCosts.st = "done"
    /\ forecast.st = "done"
    /\ budget.st = "done"
    /\ LET r == MakeReport(currentCosts.val, dailyCosts.val, forecast.val,
                           budget.val, budgetLimit, now)
       IN  \/ /\ report' = <<r>>
              /\ written' = <<ReportFile(r)>>
              /\ fileWrites' = fileWrites + 1
              /\ pc' = "returned"
              /\ UNCHANGED <<exitCode, failures, currentCosts, dailyCosts,
                             forecast, budget>>
           \/ /\ failures' = failures \cup {"write"}
              /\ Throw
              /\ UNCHANGED <<report, written, fileWrites>>
    /\ UNCHANGED <<config, accountId, started, finished, level, sendAlertCalls,
                   publish, publishCalls, recommendations, dateVars, pageVars,
                   siteVars>>

\* main() calls checkCostAlerts, which calls getCurrentMonthCosts.
StartAlert ==
    /\ CanStart("alert")
    /\ started' = Append(started, "alert")
    /\ pc' = "alert"
    /\ currentCosts' = Pending
    /\ UNCHANGED <<config, accountId, exitCode, finished,
                   dailyCosts, forecast, budget, failures, report, written,
                   fileWrites, level, sendAlertCalls, publish, publishCalls,
                   recommendations, dateVars, pageVars,
                   siteVars>>

\* checkCostAlerts resumes with the costs (none when the query failed), takes
\* its branch, and on CRITICAL or WARNING calls sendAlert, which returns at
\* once without a topic and calls sns.publish with one.
AlertWith(groups) ==
    LET lvl == AlertLevel(PercentageUsed(TotalCost(groups), budgetLimit))
    IN  /\ currentCosts' = Done(groups)
        /\ level' = lvl
        /\ IF CallsSendAlert(lvl)
           THEN /\ sendAlertCalls' = sendAlertCalls + 1
                /\ IF TopicConfigured(topicArn)
                   THEN /\ publish' = "pending"
                        /\ publishCalls' = publishCalls + 1
                        /\ pc' = "publish"
                   ELSE /\ pc' = "returned"
                        /\ UNCHANGED <<publish, publishCalls>>
           ELSE /\ pc' = "returned"
                /\ UNCHANGED <<sendAlertCalls, publish, publishCalls>>

\* AlertCostsReturn with a getCurrentMonthCosts that rethrows: the failure
\* reaches the catch block of checkCostAlerts.
AlertCostsReturnThrows ==
    /\ pc = "alert"
    /\ currentCosts.st = "pending"
    /\ \/ \E g \in GroupsInputs :
            /\ AlertWith(CurrentMonthCostsResult(TRUE, g))
            /\ failures' = failures
            /\ UNCHANGED <<exitCode, dailyCosts, forecast, budget>>
       \/ /\ failures' = failures \cup {"cost"}
          /\ Throw
          /\ UNCHANGED <<level, sendAlertCalls, publish, publishCalls>>
    /\ UNCHANGED <<config, accountId, started,
                   finished, report, written,
                   fileWrites, recommendations, dateVars, pageVars,
                   siteVars>>

\* getCurrentMonthCosts answers checkCostAlerts, or fails and returns no group.
AlertCostsReturn ==
    /\ pc = "alert"
    /\ currentCosts.st = "pending"
    /\ \/ \E g \in GroupsInputs :
            /\ AlertWith(CurrentMonthCostsResult(TRUE, g))
            /\ failures' = failures
       \/ /\ AlertWith(CurrentMonthCostsResult(FALSE, <<>>))
          /\ failures' = failures \cup {"cost"}
    /\ UNCHANGED <<config, accountId, exitCode, started,
                   finished, dailyCosts, forecast, budget, report, written,
                   fileWrites, recommendations, dateVars, pageVars,
                   siteVars>>

\* sns.publish answers or fails; sendAlert returns either way, and so does
\* checkCostAlerts.
PublishReturn ==
    /\ pc = "publish"
    /\ publish = "pending"
    /\ \/ /\ publish' = "ok"
          /\ pc' = "returned"
          /\ UNCHANGED <<exitCode, failures, currentCosts, dailyCosts, forecast,
                         budget>>
       \/ /\ publish' = "failed"
          /\ failures' = failures \cup {"publish"}
          /\ IF PublishErrorCaught
             THEN /\ pc' = "returned"
                  /\ UNCHANGED <<exitCode, currentCosts, dailyCosts, forecast,
                                 budget>>
             ELSE Throw
    /\ UNCHANGED <<config, accountId, started, finished, report, written,
                   fileWrites, level, sendAlertCalls, publishCalls,
                   recommendations, dateVars, pageVars,
                   siteVars>>

\* main() calls generateOptimizationReport, which calls getCurrentMonthCosts.
StartOptimize ==
    /\ CanStart("optimize")
    /\ started' = Append(started, "optimize")
    /\ pc' = "optimize"
    /\ currentCosts' = Pending
    /\ UNCHANGED <<config, accountId, exitCode, finished,
                   dailyCosts, forecast, budget, failures, report, written,
                   fileWrites, level, sendAlertCalls, publish, publishCalls,
                   recommendations, dateVars, pageVars,
                   siteVars>>

\* generateOptimizationReport resumes with the costs, collects and prints its
\* recommendations and returns.
OptimizeCostsReturn ==
    /\ pc = "optimize"
    /\ currentCosts.st = "pending"
    /\ \/ \E g \in GroupsInputs :
            /\ currentCosts' = Done(CurrentMonthCostsResult(TRUE, g))
            /\ recommendations' = Recommendations(CurrentMonthCostsResult(TRUE, g))
            /\ failures' = failures
       \/ /\ currentCosts' = Done(CurrentMonthCostsResult(FALSE, <<>>))
          /\ recommendations' = Recommendations(CurrentMonthCostsResult(FALSE, <<>>))
          /\ failures' = failures \cup {"cost"}
    /\ pc' = "returned"
    /\ UNCHANGED <<config, accountId, exitCode, started,
                   finished, dailyCosts, forecast, budget, report, written,
                   fileWrites, level, sendAlertCalls, publish, publishCalls,
                   dateVars, pageVars,
                   siteVars>>

\* The command's promise has resolved and main() resumes after its await; the
\* command's locals are gone.
CommandReturns ==
    /\ pc = "returned"
    /\ finished' = Append(finished, started[Len(started)])
    /\ pc' = "main"
    /\ currentCosts' = Idle
    /\ dailyCosts' = Idle
    /\ forecast' = Idle
    /\ budget' = Idle
    /\ failures' = {}
    /\ report' = <<>>
    /\ written' = <<>>
    /\ level' = ""
    /\ publish' = "idle"
    /\ recommendations' = <<>>
    /\ UNCHANGED <<config, accountId, exitCode, started,
                   fileWrites, sendAlertCalls, publishCalls, dateVars, pageVars,
                   siteVars>>

\* MainReturns with a loop mode: main() starts over in place of returning.
MainReturnsLoops ==
    /\ pc = "main"
    /\ Len(finished) = Len(Commands(args))
    /\ started' = <<>>
    /\ finished' = <<>>
    /\ fileWrites' = 0
    /\ sendAlertCalls' = 0
    /\ publishCalls' = 0
    /\ UNCHANGED <<config, accountId, pc, exitCode,
                   currentCosts, dailyCosts, forecast, budget, failures, report,
                   written, level, publish, recommendations, dateVars, pageVars,
                   siteVars>>

\* main() has run its commands: nothing is pending and the process exits.
MainReturns ==
    /\ pc = "main"
    /\ Len(finished) = Len(Commands(args))
    /\ pc' = "exited"
    /\ exitCode' = 0
    /\ UNCHANGED <<config, accountId, started, finished,
                   currentCosts, dailyCosts, forecast, budget, failures, report,
                   written, fileWrites, level, sendAlertCalls, publish,
                   publishCalls, recommendations, dateVars, pageVars,
                   siteVars>>

Next ==
    \/ StartReport
    \/ ReportCostsReturn
    \/ DailyCostsReturn
    \/ ForecastReturn
    \/ GetCallerIdentityReturn
    \/ DescribeBudgetsReturn
    \/ BuildReport
    \/ StartAlert
    \/ AlertCostsReturn
    \/ PublishReturn
    \/ StartOptimize
    \/ OptimizeCostsReturn
    \/ CommandReturns
    \/ MainReturns

Spec == Init /\ [][Next]_vars

\* The runs whose end is checked: every set of flags, the topic set and unset,
\* and the default budget limit (the limit decides no step but the class of
\* the alert, and each class is met with it).
FairInit == Init /\ budgetLimit = 10000

\* The run with every external call answering in the end and Node running
\* every continuation that is ready: a step that can be taken is taken.
FairSpec == FairInit /\ [][Next]_vars /\ WF_vars(Next)

----------------------------------------------------------------------------
(* The time periods alone: the clock and the machine's offset from UTC are  *)
(* drawn, and each fetch computes the TimePeriod of its query.              *)

\* The clocks drawn: the first, second, fifteenth and last day of January,
\* February and March 2024, at 00:00, 01:00, 12:00 and 23:00 UTC.
Instants ==
    UNION {{NewDate(m, d, 0) + h : d \in {1, 2, 15, MonthLen[m + 1]}, h \in {0, 1, 12, 23}} :
              m \in 1..3}

\* The offsets drawn, in hours: US Pacific, US Eastern, UTC, Central Europe,
\* Japan.
TzOffsets == {-8, -5, 0, 1, 9}

DateInit ==
    /\ args = {}
    /\ budgetLimit = 10000
    /\ topicArn = ""
    /\ RunInit
    /\ now \in Instants
    /\ tzOffset \in TzOffsets
    /\ costQuery = <<>>
    /\ dailyQuery = <<>>
    /\ forecastQuery = <<>>
    /\ PageInit
    /\ SiteInit

\* getCurrentMonthCosts builds its params.
QueryCurrentMonth ==
    /\ costQuery = <<>>
    /\ costQuery' = <<CurrentMonthPeriod(now, tzOffset)>>
    /\ UNCHANGED <<runVars, pageVars, siteVars, now, tzOffset,
                   dailyQuery, forecastQuery>>

\* getDailyCosts builds its params.
QueryDaily ==
    /\ dailyQuery = <<>>
    /\ dailyQuery' = <<DailyPeriod(now, tzOffset)>>
    /\ UNCHANGED <<runVars, pageVars, siteVars, now, tzOffset,
                   costQuery, forecastQuery>>

\* getCostForecast builds its params.
QueryForecast ==
    /\ forecastQuery = <<>>
    /\ forecastQuery' = <<ForecastPeriod(now, tzOffset)>>
    /\ UNCHANGED <<runVars, pageVars, siteVars, now, tzOffset,
                   costQuery, dailyQuery>>

DateNext ==
    \/ QueryCurrentMonth
    \/ QueryDaily
    \/ QueryForecast

DateSpec == DateInit /\ [][DateNext]_vars

----------------------------------------------------------------------------
(* The contact form: a visitor fills the inputs and submits, the contact   *)
(* API answers, and the timers of the success message fire.                *)

FormInit ==
    /\ args = {}
    /\ budgetLimit = 10000
    /\ topicArn = ""
    /\ RunInit
    /\ now = RunClock
    /\ tzOffset = 0
    /\ costQuery = <<>>
    /\ dailyQuery = <<>>
    /\ forecastQuery = <<>>
    /\ script \in Scripts
    /\ PageLoaded
    /\ SiteInit

\* The visitor changes the value of an input.
VisitorTypes ==
    /\ \E f \in FieldNames : \E v \in FieldInputs(f) :
          /\ v # fields[f]
          /\ fields' = [fields EXCEPT ![f] = v]
    /\ UNCHANGED <<script, redBorders, formMessage, submitButton, request,
                   fetchCalls, submits, timers, runVars, dateVars, siteVars>>

\* The submit handler of main.js: it reads and trims the values, marks the
\* inputs that fail, and either calls fetch with the button disabled or shows
\* the error message.
SubmitMain ==
    LET data == FormData(fields, script)
    IN  /\ redBorders' = Marked(data)
        /\ IF IsValid(data, script)
           THEN /\ submitButton' = [innerHTML |-> "Sending...", disabled |-> TRUE]
                /\ request' = <<[url |-> "/prod/contact", method |-> "POST",
                                 body |-> data,
                                 originalText |-> submitButton.innerHTML]>>
                /\ fetchCalls' = fetchCalls + 1
                /\ UNCHANGED formMessage
           ELSE /\ formMessage' = [className |-> "form-message error",
                                   textContent |-> FillInAll, display |-> "block"]
                /\ UNCHANGED <<submitButton, request, fetchCalls>>
        /\ UNCHANGED timers

\* The submit handler of the earlier version: it sends nothing, and shows the
\* success message and sets the reset timer when the values pass.
SubmitEarlier ==
    LET data == FormData(fields, script)
    IN  /\ IF IsValid(data, script)
           THEN /\ formMessage' = [className |-> "form-message success",
                                   textContent |-> ThankYou, display |-> "block"]
                /\ timers' = timers + 1
           ELSE /\ formMessage' = [className |-> "form-message error",
                                   textContent |-> FillInAll, display |-> "block"]
                /\ UNCHANGED timers
        /\ UNCHANGED <<redBorders, submitButton, request, fetchCalls>>

\* A submit event of contactForm. The browser raises none through a disabled
\* submit button.
ContactFormSubmit ==
    /\ ~submitButton.disabled
    /\ submits < MaxSubmits
    /\ submits' = submits + 1
    /\ IF script = "main.js" THEN SubmitMain ELSE SubmitEarlier
    /\ UNCHANGED <<script, fields, runVars, dateVars, siteVars>>

\* FetchSettles with the button restored at the end of the then handler in
\* place of a finally: a failed request leaves it as it is.
FetchSettlesNoFinally ==
    /\ request # <<>>
    /\ \E result \in Results :
          IF result # <<>> /\ result[1].success
          THEN /\ formMessage' =
                      [className |-> "form-message success",
                       textContent |-> IF result[1].message # ""
                                       THEN result[1].message ELSE ThankYou,
                       display |-> "block"]
               /\ timers' = timers + 1
               /\ submitButton' = [innerHTML |-> request[1].originalText,
                                   disabled |-> FALSE]
          ELSE /\ formMessage' = [className |-> "form-message error",
                                  textContent |-> SendError, display |-> "block"]
               /\ UNCHANGED <<timers, submitButton>>
    /\ request' = <<>>
    /\ UNCHANGED <<script, fields, redBorders, fetchCalls, submits,
                   runVars, dateVars, siteVars>>

\* The fetch settles and its then, catch and finally handlers run: the success
\* message and the reset timer when the answer says success, the error message
\* when it does not or when fetch or response.json() rejects; the button is
\* restored in every case.
FetchSettles ==
    /\ request # <<>>
    /\ \E result \in Results :
          IF result # <<>> /\ result[1].success
          THEN /\ formMessage' =
                      [className |-> "form-message success",
                       textContent |-> IF result[1].message # ""
                                       THEN result[1].message ELSE ThankYou,
                       display |-> "block"]
               /\ timers' = timers + 1
          ELSE /\ formMessage' = [className |-> "form-message error",
                                  textContent |-> SendError, display |-> "block"]
               /\ UNCHANGED timers
    /\ submitButton' = [innerHTML |-> request[1].originalText, disabled |-> FALSE]
    /\ request' = <<>>
    /\ UNCHANGED <<script, fields, redBorders, fetchCalls, submits,
                   runVars, dateVars, siteVars>>

\* A reset timer fires, 5 seconds after its success message: the form is
\* reset and the message hidden.
ResetTimerFires ==
    /\ timers > 0
    /\ timers' = timers - 1
    /\ fields' = [f \in FieldNames |-> <<>>]
    /\ formMessage' = [formMessage EXCEPT !.display = "none"]
    /\ UNCHANGED <<script, redBorders, submitButton, request, fetchCalls,
                   submits, runVars, dateVars, siteVars>>

\* FormSpec restricted to main.js, with the contact API answering every
\* request in the end (or the request failing): a fetch in flight settles.
FormFairInit == FormInit /\ script = "main.js"

FormNext ==
    \/ VisitorTypes
    \/ ContactFormSubmit
    \/ FetchSettles
    \/ ResetTimerFires

FormSpec == FormInit /\ [][FormNext]_vars

FormFairSpec == FormFairInit /\ [][FormNext]_vars /\ WF_vars(FetchSettles)

----------------------------------------------------------------------------
(* The module as a library: each call of generateCostReport calls          *)
(* getBudgetInfo, which awaits getAccountId and then describeBudgets. The   *)
(* other three fetches of a call touch nothing the calls share.            *)

\* The script is not run: no flags, the default limit, no topic.
ScriptNotRun ==
    /\ args = {}
    /\ budgetLimit = 10000
    /\ topicArn = ""
    /\ RunInit
    /\ now = RunClock
    /\ tzOffset = 0
    /\ costQuery = <<>>
    /\ dailyQuery = <<>>
    /\ forecastQuery = <<>>

LibSpecInit == ScriptNotRun /\ PageInit /\ SiteInit

\* The run variables a call of getBudgetInfo leaves alone.
libFrame == <<config, started, finished, currentCosts, dailyCosts, forecast,
              budget, failures, report, written, fileWrites, level,
              sendAlertCalls, publish, publishCalls, recommendations,
              dateVars, pageVars, navVars, statsVars, wrapperVars,
              securityVars>>

\* A caller calls generateCostReport: getBudgetInfo calls getAccountId, which
\* tests CONFIG.accountId and, finding none, calls sts.getCallerIdentity and
\* awaits it; with one cached, describeBudgets is called.
CallGetBudgetInfo(i) ==
    /\ pc = "main"
    /\ lookups[i] = Idle
    /\ lookups' = [lookups EXCEPT ![i] =
                      [st |-> IF accountId = <<>> THEN "sts" ELSE "describe",
                       val |-> <<>>]]
    /\ UNCHANGED <<accountId, pc, exitCode, stsFetched, libFrame>>

\* sts.getCallerIdentity answers a call: its account is written to
\* CONFIG.accountId, whatever is there by now, and describeBudgets is called.
\* Or it fails, and the catch block of the caller's generateCostReport ends
\* the process.
LibCallerIdentityReturn(i) ==
    /\ pc = "main"
    /\ lookups[i].st = "sts"
    /\ \/ /\ accountId' = <<TheAccount>>
          /\ stsFetched' = stsFetched + 1
          /\ lookups' = [lookups EXCEPT ![i] = [st |-> "describe", val |-> <<>>]]
          /\ UNCHANGED <<pc, exitCode>>
       \/ /\ pc' = "exited"
          /\ exitCode' = 1
          /\ UNCHANGED <<accountId, stsFetched, lookups>>
    /\ UNCHANGED libFrame

\* describeBudgets answers a call or fails; getBudgetInfo returns.
LibDescribeBudgetsReturn(i) ==
    /\ pc = "main"
    /\ lookups[i].st = "describe"
    /\ \/ \E names \in BudgetLists :
            lookups' = [lookups EXCEPT ![i] = Done(BudgetInfoResult(TRUE, names))]
       \/ lookups' = [lookups EXCEPT ![i] = Done(BudgetInfoResult(FALSE, <<>>))]
    /\ UNCHANGED <<accountId, pc, exitCode, stsFetched, libFrame>>

LibNext ==
    \/ \E i \in Invocations : CallGetBudgetInfo(i)
    \/ \E i \in Invocations : LibCallerIdentityReturn(i)
    \/ \E i \in Invocations : LibDescribeBudgetsReturn(i)

LibSpec == LibSpecInit /\ [][LibNext]_vars

----------------------------------------------------------------------------
(* The page: the navigation toggle (both scripts) and the counters of the  *)
(* stats section (the earlier script).                                     *)

\* The most '.stat h3' elements of a stats section.
MaxStats == 2

\* animateCounter's default duration and the delay of its interval, in ms.
duration == 2000
intervalDelay == 16

\* duration / 16: the ticks in which start reaches target.
Steps == duration \div intervalDelay

DigitChars == <<"0", "1", "2", "3", "4", "5", "6", "7", "8", "9">>

\* /[0-9]/, and the digit's value.
IsDigit(c) == \E d \in 1..10 : DigitChars[d] = c
DigitValue(c) == (CHOOSE d \in 1..10 : DigitChars[d] = c) - 1

\* text.replace(/\D/g, '') and text.replace(/[0-9]/g, '')
OnlyDigits(text) == SelectSeq(text, IsDigit)
NoDigits(text) == SelectSeq(text, LAMBDA c : ~IsDigit(c))

RECURSIVE DigitsValue(_)

\* The number a run of digits writes.
DigitsValue(digits) ==
    IF digits = <<>> THEN 0
    ELSE DigitsValue(SubSeq(digits, 1, Len(digits) - 1)) * 10
             + DigitValue(digits[Len(digits)])

\* NaN
NaN == -1

\* parseInt(text): the number its leading digits write, NaN without any.
ParseInt(text) ==
    LET stops == {i \in 1..Len(text) : ~IsDigit(text[i])} \cup {Len(text) + 1}
        stop == CHOOSE i \in stops : \A j \in stops : i <= j
    IN  IF stop = 1 THEN NaN ELSE DigitsValue(SubSeq(text, 1, stop - 1))

RECURSIVE NumberText(_)

\* The text of a whole number, as textContent = number writes it.
NumberText(n) ==
    IF n < 10 THEN <<DigitChars[n + 1]>>
    ELSE NumberText(n \div 10) \o <<DigitChars[(n % 10) + 1]>>

\* The texts of the '.stat h3' elements as the page is written.
StatTexts ==
    {<<"5", "0", "+">>, <<"2", "4", "/", "7">>, <<"3">>, <<"0">>, <<"N", "A">>}

StatsInputs ==
    UNION {{[i \in 1..n |-> [textContent |-> t[i], intervals |-> <<>>, animations |-> 0]] :
               t \in [1..n -> StatTexts]} : n \in 1..MaxStats}

\* The entries one callback of statsObserver may get: isIntersecting of each.
EntriesInputs == {<<FALSE>>, <<TRUE>>, <<TRUE, FALSE, TRUE>>}

\* The body of stats.forEach: the number and the suffix of the text and, for
\* a number that is neither 0 nor NaN, the text back to 0 and animateCounter,
\* which sets start to 0 and an interval.
AnimateStat(stat) ==
    LET text == stat.textContent
        number == ParseInt(OnlyDigits(text))
        suffix == NoDigits(text)
    IN  IF number # 0 /\ number # NaN
        THEN [textContent |-> <<"0">> \o suffix,
              intervals |-> Append(stat.intervals, [target |-> number, ticks |-> 0]),
              animations |-> stat.animations + 1]
        ELSE stat

RECURSIVE RunEntries(_, _)

\* entries.forEach of the callback of statsObserver.
RunEntries(entries, elements) ==
    IF entries = <<>> THEN elements
    ELSE RunEntries(Tail(entries),
                    IF Head(entries)
                    THEN [i \in 1..Len(elements) |-> AnimateStat(elements[i])]
                    ELSE elements)

\* The toggle icon after a click on the toggle: times for an open menu, bars
\* for a closed one.
IconFor(menu, classes) ==
    IF "active" \in menu
    THEN (classes \ {"fa-bars"}) \cup {"fa-times"}
    ELSE (classes \ {"fa-times"}) \cup {"fa-bars"}

PageSpecInit ==
    /\ ScriptNotRun
    /\ script \in Scripts
    /\ PageLoaded
    /\ LibInit
    /\ NavInit
    /\ WrapperIdle
    /\ NoDocument
    /\ IF script = "unnamed/part_000"
       THEN stats \in StatsInputs /\ observing = TRUE
       ELSE NoStats

\* What the handlers of the page leave alone.
pageFrame == <<runVars, dateVars, pageVars, libVars, wrapperVars, securityVars>>

\* A click on navToggle.
NavToggleClick ==
    /\ navMenu' = (IF "active" \in navMenu THEN navMenu \ {"active"}
                                           ELSE navMenu \cup {"active"})
    /\ icon' = IconFor(navMenu', icon)
    /\ UNCHANGED <<statsVars, pageFrame>>

\* NavLinkClick leaving the icon as it is.
NavLinkClickKeepsIcon ==
    /\ navMenu' = navMenu \ {"active"}
    /\ icon' = icon
    /\ UNCHANGED <<statsVars, pageFrame>>

\* A click on a link of the menu.
NavLinkClick ==
    /\ navMenu' = navMenu \ {"active"}
    /\ icon' = (icon \ {"fa-times"}) \cup {"fa-bars"}
    /\ UNCHANGED <<statsVars, pageFrame>>

\* StatsIntersect without the unobserve.
StatsIntersectStillObserved ==
    /\ observing
    /\ \E entries \in EntriesInputs : stats' = RunEntries(entries, stats)
    /\ UNCHANGED <<observing, navVars, pageFrame>>

\* The callback of statsObserver: each intersecting entry animates the stats
\* and unobserves the section.
StatsIntersect ==
    /\ observing
    /\ \E entries \in EntriesInputs :
          /\ stats' = RunEntries(entries, stats)
          /\ observing' = ~(\E i \in 1..Len(entries) : entries[i])
    /\ UNCHANGED <<navVars, pageFrame>>

\* The intervals set, as <<stat, interval>>.
Intervals ==
    UNION {{<<i, j>> : j \in 1..Len(stats[i].intervals)} : i \in 1..Len(stats)}

\* The interval due: the intervals are set in one callback with one delay and
\* fire in turn, in the order they were set.
Due(p) ==
    /\ p \in Intervals
    /\ \A q \in Intervals :
          LET tp == stats[p[1]].intervals[p[2]].ticks
              tq == stats[q[1]].intervals[q[2]].ticks
          IN  \/ tp < tq
              \/ tp = tq /\ p[1] < q[1]
              \/ tp = tq /\ p[1] = q[1] /\ p[2] <= q[2]

\* seq without its j-th element.
Without(seq, j) == SubSeq(seq, 1, j - 1) \o SubSeq(seq, j + 1, Len(seq))

\* The callback of an interval: start += increment, and either the target is
\* shown and the interval cleared, or Math.floor(start) is shown. start is a
\* sum of binary fractions: where the exact sum is a whole number the sum made
\* may fall just short of it.
IntervalTick ==
    /\ \E p \in Intervals : \E short \in BOOLEAN :
          LET stat == stats[p[1]]
              int == stat.intervals[p[2]]
              k == int.ticks + 1
              whole == (k * int.target) % Steps = 0
              floor == ((k * int.target) \div Steps) - (IF short THEN 1 ELSE 0)
          IN  /\ Due(p)
              /\ short => whole
              /\ IF k > Steps \/ (k = Steps /\ ~short)
                 THEN stats' = [stats EXCEPT ![p[1]] =
                                   [stat EXCEPT !.textContent = NumberText(int.target),
                                                !.intervals = Without(stat.intervals, p[2])]]
                 ELSE stats' = [stats EXCEPT ![p[1]] =
                                   [stat EXCEPT !.textContent = NumberText(floor),
                                                !.intervals[p[2]].ticks = k]]
    /\ UNCHANGED <<observing, navVars, pageFrame>>

PageNext ==
    \/ NavToggleClick
    \/ NavLinkClick
    \/ StatsIntersect
    \/ IntervalTick

PageSpec == PageSpecInit /\ [][PageNext]_vars

\* The browser runs the callback of every interval that is set.
PageFairSpec == PageSpec /\ WF_vars(IntervalTick)

----------------------------------------------------------------------------
(* The shell wrapper of the cost monitor, run under set -e.                *)

\* The first argument: none, each command, and a word that is none.
ShCommands ==
    {<<>>, <<"setup">>, <<"report">>, <<"alert">>, <<"optimize">>, <<"all">>,
     <<"help">>, <<"--help">>, <<"status">>}

\* The machines: the major version of node (0 when there is none), whether
\* node_modules is there, whether npm install succeeds, the AWS CLI (missing,
\* installed without credentials, configured) and the exit code node gives.
ShEnvs ==
    [node : {0, 12, 18}, modules : BOOLEAN, npm : BOOLEAN,
     aws : {"missing", "unconfigured", "configured"}, exit : {0, 1}]

\* set -e: the shell exits when a simple command returns a status other than 0.
ErrExit == TRUE

\* The warnings of check_aws.
AwsMissing == "AWS CLI is not installed. Some features may not work."
AwsUnconfigured == "AWS CLI is not configured. Run 'aws configure' first."

\* local command=${1:-all}
CommandWord(arg) == IF arg = <<>> THEN "all" ELSE arg[1]

\* The arguments of node cost-monitor.js in each branch of the case.
NodeArgs(command) ==
    CASE command = "report" -> {"--report"}
      [] command = "alert" -> {"--alert"}
      [] command = "optimize" -> {"--optimize"}
      [] command = "all" -> {}

\* The line each branch prints before it runs node.
Banner(command) ==
    CASE command = "report" -> "Generating cost report..."
      [] command = "alert" -> "Checking cost alerts..."
      [] command = "optimize" -> "Generating optimization recommendations..."
      [] command = "all" -> "Running all monitoring tasks..."

\* The status check_aws returns, and the line it prints.
CheckAwsStatus(env) == IF env.aws = "configured" THEN 0 ELSE 1
CheckAwsWarning(env) ==
    CASE env.aws = "missing" -> <<AwsMissing>>
      [] env.aws = "unconfigured" -> <<AwsUnconfigured>>
      [] OTHER -> <<>>

WrapperInit ==
    /\ ScriptNotRun
    /\ PageInit
    /\ LibInit
    /\ NavInit
    /\ NoStats
    /\ NoDocument
    /\ shCommand \in ShCommands
    /\ shEnv \in ShEnvs
    /\ shPc = "main"
    /\ shOutput = <<>>
    /\ shNode = <<>>
    /\ shStatus = -1

\* What the wrapper leaves alone.
wrapperFrame ==
    <<runVars, dateVars, pageVars, libVars, navVars, statsVars, securityVars>>

\* The shell exits with a status.
ShExit(status) ==
    /\ shPc' = "exited"
    /\ shStatus' = status

\* main: the case over the command. The help and the unknown command end
\* here; every other branch calls check_node first.
ShMain ==
    /\ shPc = "main"
    /\ LET command == CommandWord(shCommand)
       IN  IF command \in {"setup", "report", "alert", "optimize", "all"}
           THEN shPc' = "check_node" /\ UNCHANGED <<shOutput, shStatus>>
           ELSE IF command \in {"help", "--help", "-h"}
           THEN shOutput' = Append(shOutput, "Usage: $0 [COMMAND]") /\ ShExit(0)
           ELSE shOutput' = shOutput \o <<"Unknown command", "Usage: $0 [COMMAND]">>
                  /\ ShExit(1)
    /\ UNCHANGED <<shCommand, shEnv, shNode, wrapperFrame>>

\* check_node: exit 1 without node or with one older than 14.
ShCheckNode ==
    /\ shPc = "check_node"
    /\ IF shEnv.node = 0
       THEN shOutput' = Append(shOutput, "Node.js is not installed.") /\ ShExit(1)
       ELSE IF shEnv.node < 14
       THEN shOutput' = Append(shOutput, "Node.js version 14+ is required.")
            /\ ShExit(1)
       ELSE shPc' = "install_deps" /\ UNCHANGED <<shOutput, shStatus>>
    /\ UNCHANGED <<shCommand, shEnv, shNode, wrapperFrame>>

\* install_deps: npm install when node_modules is missing; its failure ends
\* the shell under set -e. The setup branch ends after it.
ShInstallDeps ==
    /\ shPc = "install_deps"
    /\ LET printed == IF shEnv.modules THEN shOutput
                      ELSE IF shEnv.npm
                      THEN shOutput \o <<"Installing dependencies...",
                                         "Dependencies installed">>
                      ELSE Append(shOutput, "Installing dependencies...")
       IN  IF ~shEnv.modules /\ ~shEnv.npm /\ ErrExit
           THEN /\ shOutput' = printed
                /\ ShExit(1)
                /\ UNCHANGED shEnv
           ELSE /\ shEnv' = [shEnv EXCEPT !.modules = shEnv.modules \/ shEnv.npm]
                /\ IF CommandWord(shCommand) = "setup"
                   THEN shOutput' = Append(printed, "Setup complete") /\ ShExit(0)
                   ELSE /\ shOutput' = printed
                        /\ shPc' = "check_aws"
                        /\ UNCHANGED shStatus
    /\ UNCHANGED <<shCommand, shNode, wrapperFrame>>

\* check_aws, called as a simple command: it prints its warning and returns
\* 1 without a configured AWS CLI, and under set -e that status ends the
\* shell; with status 0 the branch prints its banner.
ShCheckAws ==
    /\ shPc = "check_aws"
    /\ IF CheckAwsStatus(shEnv) # 0 /\ ErrExit
       THEN /\ shOutput' = shOutput \o CheckAwsWarning(shEnv)
            /\ ShExit(CheckAwsStatus(shEnv))
       ELSE /\ shOutput' = shOutput \o CheckAwsWarning(shEnv)
                               \o <<Banner(CommandWord(shCommand))>>
            /\ shPc' = "node"
            /\ UNCHANGED shStatus
    /\ UNCHANGED <<shCommand, shEnv, shNode, wrapperFrame>>

\* node cost-monitor.js with the flag of the branch: the last command of
\* main, whose status is the wrapper's.
ShRunNode ==
    /\ shPc = "node"
    /\ shNode' = <<NodeArgs(CommandWord(shCommand))>>
    /\ ShExit(shEnv.exit)
    /\ UNCHANGED <<shCommand, shEnv, shOutput, wrapperFrame>>

WrapperNext ==
    \/ ShMain
    \/ ShCheckNode
    \/ ShInstallDeps
    \/ ShCheckAws
    \/ ShRunNode

WrapperSpec == WrapperInit /\ [][WrapperNext]_vars

----------------------------------------------------------------------------
(* validateSecurity of security.config.js. A hostname is the sequence of   *)
(* its characters.                                                         *)

MaxResources == 2

allowedDomains ==
    <<
     \* fonts.googleapis.com
      <<"f", "o", "n", "t", "s", ".", "g", "o", "o", "g", "l", "e",
        "a", "p", "i", "s", ".", "c", "o", "m">>,
     \* fonts.gstatic.com
      <<"f", "o", "n", "t", "s", ".", "g", "s", "t", "a", "t", "i",
        "c", ".", "c", "o", "m">>,
     \* cdnjs.cloudflare.com
      <<"c", "d", "n", "j", "s", ".", "c", "l", "o", "u", "d", "f",
        "l", "a", "r", "e", ".", "c", "o", "m">>,
     \* www.google-analytics.com
      <<"w", "w", "w", ".", "g", "o", "o", "g", "l", "e", "-", "a",
        "n", "a", "l", "y", "t", "i", "c", "s", ".", "c", "o", "m">>,
     \* unsplash.com
      <<"u", "n", "s", "p", "l", "a", "s", "h", ".", "c", "o", "m">>,
     \* images.unsplash.com
      <<"i", "m", "a", "g", "e", "s", ".", "u", "n", "s", "p", "l",
        "a", "s", "h", ".", "c", "o", "m">>
    >>

\* The directives of the content security policy that validateSecurity reads.
defaultSrc == {"'self'"}
scriptSrc ==
    {"'self'", "'unsafe-inline'", "https://www.google-analytics.com",
     "https://www.googletagmanager.com", "https://cdnjs.cloudflare.com",
     "https://cdn.jsdelivr.net"}
styleSrc ==
    {"'self'", "'unsafe-inline'", "https://fonts.googleapis.com",
     "https://cdnjs.cloudflare.com"}

\* The hostnames of the external resources a page may carry, besides the
\* allowed ones: a subdomain of an allowed domain, two names that contain an
\* allowed domain without being under it, a name an allowed domain starts
\* with, and two names that have nothing of the list.
Hostnames ==
    {allowedDomains[1], allowedDomains[5], allowedDomains[6]} \cup
    {
     \* cdn.unsplash.com
      <<"c", "d", "n", ".", "u", "n", "s", "p", "l", "a", "s", "h",
        ".", "c", "o", "m">>,
     \* notunsplash.com
      <<"n", "o", "t", "u", "n", "s", "p", "l", "a", "s", "h", ".",
        "c", "o", "m">>,
     \* unsplash.com.evil.io
      <<"u", "n", "s", "p", "l", "a", "s", "h", ".", "c", "o", "m",
        ".", "e", "v", "i", "l", ".", "i", "o">>,
     \* unsplash.co
      <<"u", "n", "s", "p", "l", "a", "s", "h", ".", "c", "o">>,
     \* evil.io
      <<"e", "v", "i", "l", ".", "i", "o">>,
     \* cdn.jsdelivr.net
      <<"c", "d", "n", ".", "j", "s", "d", "e", "l", "i", "v", "r",
        ".", "n", "e", "t">>
    }

\* String.prototype.includes on a hostname: part occurs somewhere in text.
HostIncludes(text, part) ==
    \E i \in 1..(Len(text) - Len(part) + 1) :
        SubSeq(text, i, i + Len(part) - 1) = part

\* Array.prototype.some over allowedDomains with domain.includes(allowed).
Whitelisted(domain) ==
    \E k \in 1..Len(allowedDomains) : HostIncludes(domain, allowedDomains[k])

NonWhitelisted(domain) ==
    [text |-> "External resource from non-whitelisted domain: ",
     domain |-> domain]

\* The warnings of the external resources, in the order of the elements.
RECURSIVE ExternalWarnings(_)
ExternalWarnings(links) ==
    IF links = <<>> THEN <<>>
    ELSE (IF ~Whitelisted(Head(links)) THEN <<NonWhitelisted(Head(links))>>
          ELSE <<>>) \o ExternalWarnings(Tail(links))

\* The pages: whether the page is served over https (or from localhost),
\* whether it has inline scripts and styles, and the hostnames of its
\* external links, scripts and images.
Documents ==
    [https : BOOLEAN, inlineScripts : BOOLEAN, inlineStyles : BOOLEAN,
     externalLinks : UNION {[1..n -> Hostnames] : n \in 0..MaxResources}]

SecurityInit ==
    /\ ScriptNotRun
    /\ PageInit
    /\ LibInit
    /\ NavInit
    /\ NoStats
    /\ WrapperIdle
    /\ document \in Documents
    /\ results = <<>>

validateSecurity ==
    /\ results = <<>>
    /\ LET https == IF document.https
                    THEN [passed |-> <<"HTTPS enforcement check passed">>,
                          errors |-> <<>>]
                    ELSE [passed |-> <<>>,
                          errors |-> <<"HTTPS not enforced - site should redirect HTTP to HTTPS">>]
           csp == IF "'self'" \in defaultSrc
                  THEN [passed |-> <<"CSP default-src properly configured">>,
                        errors |-> <<>>]
                  ELSE [passed |-> <<>>,
                        errors |-> <<"CSP default-src should include self">>]
           scripts == IF document.inlineScripts /\ "'unsafe-inline'" \notin scriptSrc
                      THEN <<[text |-> "Inline scripts detected - consider moving to external files",
                              domain |-> <<>>]>>
                      ELSE <<>>
           styles == IF document.inlineStyles /\ "'unsafe-inline'" \notin styleSrc
                     THEN <<[text |-> "Inline styles detected - consider moving to external files",
                             domain |-> <<>>]>>
                     ELSE <<>>
       IN  results' = <<[passed |-> https.passed \o csp.passed,
                         warnings |-> scripts \o styles
                                        \o ExternalWarnings(document.externalLinks),
                         errors |-> https.errors \o csp.errors]>>
    /\ UNCHANGED <<document, runVars, dateVars, pageVars, libVars, navVars,
                   statsVars, wrapperVars>>

SecuritySpec == SecurityInit /\ [][validateSecurity]_vars

----------------------------------------------------------------------------
(* The claims.                                                             *)

\* The total of the costs the running command fetched, in mils.
FetchedTotal == SumAmounts(currentCosts.val)

\* checkCostAlerts has taken its branch.
Classified == level # ""

\* The last command main() called.
Running == started[Len(started)]

\* C1: checkCostAlerts classifies percentUsed = total / limit * 100 as CRITICAL
\* when it is at least 100, as WARNING when it is at least 80 and under 100,
\* and as OK otherwise: one class, and one only, for every total and limit.
C1_AlertClassification ==
    Classified =>
        /\ level \in {"CRITICAL", "WARNING", "OK"}
        /\ level = "CRITICAL" <=> FetchedTotal * 100 >= 100 * budgetLimit
        /\ level = "WARNING" <=> /\ FetchedTotal * 100 >= 80 * budgetLimit
                                 /\ FetchedTotal * 100 < 100 * budgetLimit
        /\ level = "OK" <=> FetchedTotal * 100 < 80 * budgetLimit

\* C1: a total of exactly 80% of the limit has been classified.
C1_Witness ==
    /\ Classified
    /\ FetchedTotal * 100 = 80 * budgetLimit
    /\ level = "WARNING"

\* C2: checkCostAlerts calls sendAlert once on CRITICAL and on WARNING, never
\* on OK, and at most one notification is published per alert check.
C2_OneAlertPerCheck ==
    /\ sendAlertCalls <= 1
    /\ publishCalls <= sendAlertCalls
    /\ (\A i \in 1..Len(started) : started[i] # "alert") => sendAlertCalls = 0
    /\ Classified =>
          /\ level \in {"CRITICAL", "WARNING"} => sendAlertCalls = 1
          /\ level = "OK" => sendAlertCalls = 0 /\ publishCalls = 0

\* C2: a WARNING has been classified and its one notification published.
C2_Witness ==
    /\ level = "WARNING"
    /\ sendAlertCalls = 1
    /\ publishCalls = 1
    /\ publish = "ok"

\* C3: a report's status is WARNING exactly when the total is strictly above
\* budgetLimit * alertThreshold (0.8) and OK otherwise, whatever the budget
\* lookup, the daily query and the forecast query returned.
C3_ReportStatus ==
    report # <<>> =>
        /\ report[1].summary.status \in {"WARNING", "OK"}
        /\ report[1].summary.status = "WARNING" <=> FetchedTotal * 10 > budgetLimit * 8

\* C3: a report of a total of exactly 80% of the limit, made without a budget
\* record, daily data or a forecast.
C3_Witness ==
    /\ report # <<>>
    /\ FetchedTotal * 10 = budgetLimit * 8
    /\ report[1].summary.status = "OK"
    /\ budget.val = <<>>
    /\ dailyCosts.val = <<>>
    /\ forecast.val = <<>>

RECURSIVE SumCost(_)
\* The sum of the cost fields of a service breakdown, in cents.
SumCost(breakdown) ==
    IF breakdown = <<>> THEN 0
    ELSE SumCost(Tail(breakdown)) + Head(breakdown).cost

\* The distance between the sum of a report's cost fields and its totalCost.
CostGap(r) ==
    LET d == SumCost(r.serviceBreakdown) - r.summary.totalCost
    IN  IF d < 0 THEN -d ELSE d

\* C4 as claimed: in a report with a non-empty breakdown the cost fields sum to
\* summary.totalCost (within 1e-6 USD, which is under a cent), for all amounts.
C4_Original ==
    (report # <<>> /\ report[1].serviceBreakdown # <<>>) => CostGap(report[1]) = 0

\* C4 as amended: the cost fields and totalCost are each rounded to the cent, so
\* for n services their sum and totalCost differ by at most (n + 1) / 2 cents,
\* and they are equal when every amount is a whole number of cents.
C4_RoundedCostsSum ==
    (report # <<>> /\ report[1].serviceBreakdown # <<>>) =>
        /\ 2 * CostGap(report[1]) <= Len(report[1].serviceBreakdown) + 1
        /\ (\A i \in 1..Len(currentCosts.val) : currentCosts.val[i].Amount % 10 = 0)
              => CostGap(report[1]) = 0

\* C4: a report of two services billed under half a cent each: the cost fields
\* sum to 0.00 and totalCost is 0.01.
C4_Witness ==
    /\ report # <<>>
    /\ Len(report[1].serviceBreakdown) = 2
    /\ SumCost(report[1].serviceBreakdown) = 0
    /\ report[1].summary.totalCost = 1

\* C5 as claimed: every fetch of the report path, the account lookup of the
\* budget lookup among them, catches its own failure, so that once
\* generateCostReport has ended a report has been written (the write itself
\* not having failed).
C5_EveryFetchFailureCaught ==
    (started # <<>> /\ started[1] = "report" /\ pc # "report" /\ "write" \notin failures)
        => fileWrites = 1

\* C6 as claimed: without a flag the three commands run in the order report,
\* alert, optimize, and a failure thrown inside one does not keep the
\* following ones from running. (The account lookup, whose failure C5 is
\* about, is left aside: the process has ended with it answered.)
C6_Original ==
    (args = {} /\ pc = "exited" /\ accountId # <<>>) =>
        started = <<"report", "alert", "optimize">>

\* A failure that no fetch catches has happened in the running command.
Thrown == failures \cap {"sts", "write"} # {}

\* C6 as amended: without a flag the commands run in the order report, alert,
\* optimize, each called once the one before has returned; a failure that a
\* fetch catches keeps none from running, and an exception that reaches a
\* command's catch block ends the process with exit code 1 before the
\* following commands run.
C6_OrderAndExit ==
    args = {} =>
        /\ started = SubSeq(<<"report", "alert", "optimize">>, 1, Len(started))
        /\ finished = SubSeq(started, 1, Len(finished))
        /\ Len(started) - Len(finished) <= 1
        /\ Thrown => pc = "exited" /\ exitCode = 1 /\ Len(finished) < Len(started)
        /\ (pc = "exited" /\ ~Thrown) =>
              exitCode = 0 /\ finished = <<"report", "alert", "optimize">>

\* C6: fs.writeFileSync threw in the report command and the process has
\* exited with code 1 before the alert command was called.
C6_Witness ==
    /\ args = {}
    /\ pc = "exited"
    /\ exitCode = 1
    /\ "write" \in failures
    /\ started = <<"report">>

\* C7: when the forecast query fails the report's forecast is null, and its
\* summary and serviceBreakdown are those of the report made of the same
\* costs, days and budget with any answer of the forecast query.
C7_ForecastFailure ==
    (report # <<>> /\ "forecast" \in failures) =>
        /\ report[1].forecast = <<>>
        /\ \A f \in ForecastInputs :
              LET other == MakeReport(currentCosts.val, dailyCosts.val,
                                      CostForecastResult(TRUE, f), budget.val,
                                      budgetLimit, now)
              IN  /\ report[1].summary = other.summary
                  /\ report[1].serviceBreakdown = other.serviceBreakdown

\* C7: a report of two services made after the forecast query failed.
C7_Witness ==
    /\ report # <<>>
    /\ "forecast" \in failures
    /\ Len(report[1].serviceBreakdown) = 2
    /\ report[1].forecast = <<>>

\* Today where the script runs, and today in UTC.
Todays == {DateOfDay((now + tzOffset) \div 24), DateOfDay(now \div 24)}

\* C8 as claimed: getCurrentMonthCosts queries from the first day of the
\* current month to the first day of the next, and getDailyCosts from the
\* first day of the current month to today, for every date, time of day and
\* offset from UTC of the machine; "current" and "today" read as the
\* machine's date or as the date in UTC, whichever fits.
C8_QueryPeriods ==
    /\ costQuery # <<>> =>
          \E d \in Todays :
              costQuery[1] = [Start |-> [month |-> d.month, day |-> 1],
                              End |-> [month |-> d.month + 1, day |-> 1]]
    /\ dailyQuery # <<>> =>
          \E d \in Todays : \E e \in Todays :
              dailyQuery[1] = [Start |-> [month |-> d.month, day |-> 1], End |-> e]

\* C9: without SNS_ALERT_TOPIC sendAlert returns without publishing and without
\* raising: checkCostAlerts returns, whatever the severity.
C9_NoTopicNoPublish ==
    topicArn = "" =>
        /\ publishCalls = 0
        /\ publish = "idle"
        /\ (Classified /\ level # "OK") => pc = "returned" /\ exitCode = -1

\* C9: sendAlert has been called for a CRITICAL alert without a topic.
C9_Witness ==
    /\ topicArn = ""
    /\ level = "CRITICAL"
    /\ sendAlertCalls = 1
    /\ pc = "returned"

\* C10: a failure of sns.publish is caught in sendAlert: checkCostAlerts
\* returns, and the process does not exit with a code other than 0 for it.
C10_PublishFailureCaught ==
    /\ publish = "failed" => pc = "returned" /\ exitCode = -1
    /\ "publish" \in failures => pc # "exited"
    /\ (pc = "exited" /\ exitCode # 0) => Running # "alert"

\* C10: sns.publish has failed.
C10_Witness ==
    /\ publish = "failed"
    /\ "publish" \in failures
    /\ level = "CRITICAL"

\* The recommendations made for a service.
RecsFor(service) ==
    Cardinality({i \in 1..Len(recommendations) : recommendations[i].service = service})

\* The answer of the billing API holds the service at more than `over` mils.
BilledOver(service, over) ==
    \E i \in 1..Len(currentCosts.val) :
        currentCosts.val[i].Keys = service /\ currentCosts.val[i].Amount > over

\* C11: generateOptimizationReport makes one recommendation for Amplify when
\* its cost is over 2.00 USD, one for CloudFront when over 1.00 USD and one
\* for Route 53 when over 1.00 USD; a service at or under its threshold, or
\* absent from the answer, gets none, and no other service gets any.
C11_Recommendations ==
    (pc = "returned" /\ Running = "optimize") =>
        /\ RecsFor("Amazon Amplify") =
              (IF BilledOver("Amazon Amplify", 2000) THEN 1 ELSE 0)
        /\ RecsFor("Amazon CloudFront") =
              (IF BilledOver("Amazon CloudFront", 1000) THEN 1 ELSE 0)
        /\ RecsFor("Amazon Route 53") =
              (IF BilledOver("Amazon Route 53", 1000) THEN 1 ELSE 0)
        /\ Len(recommendations) = RecsFor("Amazon Amplify")
              + RecsFor("Amazon CloudFront") + RecsFor("Amazon Route 53")

\* C11: Amplify is billed exactly 2.00 USD and CloudFront 2.00 USD: the one
\* recommendation is CloudFront's.
C11_Witness ==
    /\ pc = "returned"
    /\ Running = "optimize"
    /\ currentCosts.val = <<[Keys |-> "Amazon Amplify", Amount |-> 2000],
                            [Keys |-> "Amazon CloudFront", Amount |-> 2000]>>
    /\ Len(recommendations) = 1
    /\ recommendations[1].service = "Amazon CloudFront"

\* C12: the process exits with code 0 when the commands main() selected have
\* all returned, and an exception that no fetch catches ends the process with
\* a code other than 0, whatever the flags.
C12_ExitCodes ==
    /\ pc # "exited" => exitCode = -1
    /\ pc = "exited" => exitCode \in {0, 1}
    /\ (pc = "exited" /\ finished = Commands(args)) => exitCode = 0
    /\ exitCode = 0 => (finished = Commands(args) /\ ~Thrown)
    /\ Thrown => (pc = "exited" /\ exitCode # 0)

\* C12: with --report, sts.getCallerIdentity has failed and the process has
\* exited with code 1.
C12_Witness ==
    /\ args = {"--report"}
    /\ "sts" \in failures
    /\ pc = "exited"
    /\ exitCode = 1

\* The command a flag selects.
CommandOf(flag) ==
    CASE flag = "--report" -> "report"
      [] flag = "--alert" -> "alert"
      [] flag = "--optimize" -> "optimize"

\* C13: with exactly one of --report, --alert and --optimize main() calls that
\* command and no other; with no flag it calls report, alert and optimize in
\* that order, each once the one before it has returned.
C13_CommandSelection ==
    /\ \A flag \in {"--report", "--alert", "--optimize"} :
          args = {flag} =>
              /\ started \in {<<>>, <<CommandOf(flag)>>}
              /\ (pc = "exited" /\ exitCode = 0) => finished = <<CommandOf(flag)>>
    /\ args = {} =>
          /\ \E n \in 0..3 : started = SubSeq(<<"report", "alert", "optimize">>, 1, n)
          /\ \A n \in 1..Len(started) :
                n < Len(started) => (Len(finished) >= n /\ finished[n] = started[n])
          /\ (pc = "exited" /\ exitCode = 0) => finished = <<"report", "alert", "optimize">>

\* C13: with --optimize alone the process has ended having run the
\* optimization and nothing else.
C13_Witness ==
    /\ args = {"--optimize"}
    /\ pc = "exited"
    /\ exitCode = 0
    /\ started = <<"optimize">>
    /\ finished = <<"optimize">>
    /\ fileWrites = 0
    /\ sendAlertCalls = 0

\* C14: a call of generateCostReport writes one file, unless the write itself
\* fails; checkCostAlerts and generateOptimizationReport write none.
C14_OneFilePerReport ==
    /\ fileWrites <= 1
    /\ (\A n \in 1..Len(started) : started[n] # "report") => fileWrites = 0
    /\ (started # <<>> /\ Running = "report" /\ pc \in {"returned", "exited"}
          /\ "write" \notin failures) => fileWrites = 1

Dist(x, y) == IF x >= y THEN x - y ELSE y - x

\* C16: summary.budgetUsed is 'N/A' when getBudgetInfo returned no budget
\* (none matched, or the lookup failed) and only then; otherwise it is
\* total / limit * 100 printed with one decimal. The status of the report and
\* the class checkCostAlerts gives follow from the total and the configured
\* limit alone, with or without a budget record.
C16_BudgetUsed ==
    /\ report # <<>> =>
          LET summary == report[1].summary
          IN  /\ summary.budgetUsed = <<>> <=> budget.val = <<>>
              /\ "budget" \in failures => summary.budgetUsed = <<>>
              /\ budget.val # <<>> =>
                    /\ Len(summary.budgetUsed) = 1
                    /\ 2 * Dist(summary.budgetUsed[1] * budgetLimit, FetchedTotal * 1000)
                          <= budgetLimit
              /\ summary.budgetLimit = budgetLimit
              /\ summary.status = "WARNING" <=> FetchedTotal * 10 > budgetLimit * 8
              /\ summary.status \in {"WARNING", "OK"}
              /\ summary.status = Summary(currentCosts.val, <<>>, budgetLimit).status
              /\ summary.status = Summary(currentCosts.val, <<"a budget">>, budgetLimit).status
    /\ Classified =>
          /\ budget.st = "idle"
          /\ level = "CRITICAL" <=> FetchedTotal >= budgetLimit
          /\ level = "OK" <=> FetchedTotal * 10 < budgetLimit * 8

\* C16: the budget lookup has failed and the report, over its threshold, says
\* 'N/A'.
C16_Witness ==
    /\ report # <<>>
    /\ "budget" \in failures
    /\ report[1].summary.budgetUsed = <<>>
    /\ report[1].summary.status = "WARNING"

\* The sum of the percentages of a breakdown, in tenths of a percent; a
\* percentage that is not a number ("NaN") makes the sum -1.
RECURSIVE SumPercentage(_)

SumPercentage(breakdown) ==
    IF breakdown = <<>> THEN 0
    ELSE LET rest == SumPercentage(Tail(breakdown))
         IN  IF Head(breakdown).percentage = <<>> \/ rest = -1
             THEN -1
             ELSE Head(breakdown).percentage[1] + rest

\* C17: in a report with a non-empty service breakdown the percentages are
\* numbers that sum to 100, to within the rounding of each to one decimal
\* (0.05 a service), also when every service cost is zero.
C17_PercentagesSum ==
    (report # <<>> /\ report[1].serviceBreakdown # <<>>) =>
        LET breakdown == report[1].serviceBreakdown
        IN  /\ SumPercentage(breakdown) # -1
            /\ 2 * Dist(SumPercentage(breakdown), 1000) <= Len(breakdown)

\* C18: dailyTrend holds the last 7 entries of the answer of the daily query,
\* in its order: all of them when there are 7 or fewer, none when the query
\* failed; it is never longer than 7.
C18_DailyTrend ==
    report # <<>> =>
        LET trend == report[1].dailyTrend
            days == dailyCosts.val
            skipped == Len(days) - Len(trend)
        IN  /\ Len(trend) <= 7
            /\ Len(trend) = (IF Len(days) < 7 THEN Len(days) ELSE 7)
            /\ \A i \in 1..Len(trend) :
                  /\ trend[i].date = days[skipped + i].Start
                  /\ 2 * Dist(trend[i].cost * 10, days[skipped + i].Amount) <= 10
            /\ "daily" \in failures => trend = <<>>

\* C18: the daily query has answered with more than 7 days and the first is
\* left out of the trend.
C18_Witness ==
    /\ report # <<>>
    /\ Len(dailyCosts.val) > 7
    /\ Len(report[1].dailyTrend) = 7
    /\ report[1].dailyTrend[1].date = dailyCosts.val[Len(dailyCosts.val) - 6].Start
    /\ report[1].dailyTrend[1].date # dailyCosts.val[1].Start

\* C19: when every external call answers in the end, with a result or an
\* error, the process ends, whatever the flags and whichever calls fail.
C19_Terminates == <>(pc = "exited")

\* C19: without a flag the three commands have run, an alert was sent, and
\* the process has ended.
C19_Witness ==
    /\ args = {}
    /\ pc = "exited"
    /\ exitCode = 0
    /\ finished = <<"report", "alert", "optimize">>
    /\ sendAlertCalls = 1
    /\ publishCalls = 1

\* C20: a submit of the contact form sends a request to the contact API only
\* when firstName, lastName, email, projectType and message are not empty once
\* trimmed and the trimmed email matches the pattern; when they are not, no
\* request is sent and the error message is shown. No other step sends one.
C20_RequestOnlyWhenValid ==
    [][LET complete ==
               /\ Trim(fields.firstName) # <<>>
               /\ Trim(fields.lastName) # <<>>
               /\ Trim(fields.email) # <<>>
               /\ Trim(fields.projectType) # <<>>
               /\ Trim(fields.message) # <<>>
           matches == EmailRegexTest(Trim(fields.email))
       IN  /\ fetchCalls' # fetchCalls =>
                 /\ submits' # submits
                 /\ complete /\ matches
                 /\ fetchCalls' = fetchCalls + 1
                 /\ request' # <<>>
           /\ (request' # request /\ request' # <<>>) => fetchCalls' # fetchCalls
           /\ (submits' # submits /\ ~(complete /\ matches)) =>
                 /\ fetchCalls' = fetchCalls
                 /\ request' = request
                 /\ formMessage'.className = "form-message error"
                 /\ formMessage'.textContent = FillInAll
                 /\ formMessage'.display = "block"]_vars

\* C20: main.js has sent the request for an email typed with a space before
\* it, and the body holds the email trimmed.
C20_Witness ==
    /\ request # <<>>
    /\ fetchCalls = 1
    /\ fields.email = <<" ", "a", "@", "b", ".", "c">>
    /\ request[1].body.email = <<"a", "@", "b", ".", "c">>
    /\ request[1].body.message # <<>>
    /\ submitButton.disabled

\* C21: generateCostReport has called its four fetches before it awaits any,
\* builds the report only once the four have returned, and builds it from
\* what they returned alone: in whatever order they return, the same answers
\* give the same report.
C21_AllFetchesThenReport ==
    /\ pc = "report" =>
          /\ currentCosts.st # "idle"
          /\ dailyCosts.st # "idle"
          /\ forecast.st # "idle"
          /\ budget.st # "idle"
    /\ report # <<>> =>
          /\ currentCosts.st = "done"
          /\ dailyCosts.st = "done"
          /\ forecast.st = "done"
          /\ budget.st = "done"
          /\ report[1] = MakeReport(currentCosts.val, dailyCosts.val, forecast.val,
                                    budget.val, budgetLimit, now)

\* C21: the budget lookup and the forecast, called last, have returned while
\* the two cost queries, called first, are still pending.
C21_Witness ==
    /\ pc = "report"
    /\ budget.st = "done"
    /\ budget.val # <<>>
    /\ forecast.st = "done"
    /\ forecast.val # <<>>
    /\ currentCosts.st = "pending"
    /\ dailyCosts.st = "pending"

\* C23: for the total and limit of a report, the status of the report is
\* WARNING exactly when checkCostAlerts classes that total and limit WARNING
\* or CRITICAL, also when the total is exactly limit * alertThreshold.
C23_StatusAgreesWithAlert ==
    report # <<>> =>
        (report[1].summary.status = "WARNING"
            <=> AlertLevel(PercentageUsed(FetchedTotal, budgetLimit))
                    \in {"WARNING", "CRITICAL"})

\* C24: when the cost query of checkCostAlerts fails the class is OK, sendAlert
\* is not called, nothing is published, and checkCostAlerts returns without
\* ending the process.
C24_FailedQueryIsOk ==
    (started # <<>> /\ Running = "alert" /\ "cost" \in failures) =>
        /\ currentCosts.val = <<>>
        /\ FetchedTotal = 0
        /\ level = "OK"
        /\ publish = "idle"
        /\ publishCalls = 0
        /\ sendAlertCalls = 0
        /\ pc = "returned"
        /\ exitCode = -1

\* C24: with --alert, the cost query has failed and checkCostAlerts has
\* returned.
C24_Witness ==
    /\ args = {"--alert"}
    /\ "cost" \in failures
    /\ level = "OK"
    /\ pc = "returned"

\* C22: the identity service gives the account at most once in a process, also
\* when calls of generateCostReport overlap, and the cached account is never
\* replaced by another.
C22_AccountFetchedOnce ==
    /\ stsFetched <= 1
    /\ accountId \in {<<>>, <<TheAccount>>}
    /\ accountId = <<>> => stsFetched = 0

\* C26: the reset timer of an earlier successful submission never hides the
\* message of a later one: an error message, which only a submission made
\* after the timer was set can have shown, is never hidden.
C26_TimerSparesLaterMessage ==
    ~(formMessage.className = "form-message error" /\ formMessage.display = "none")

\* C27: while a request is in flight the submit button is disabled, and every
\* request in flight leads to the button enabled again under its original
\* label, however the request settles.
C27_ButtonRestored ==
    /\ [](request # <<>> => submitButton.disabled)
    /\ (request # <<>>) ~>
           (request = <<>> /\ submitButton = [innerHTML |-> "Send Message",
                                              disabled |-> FALSE])

\* C27: a request has failed (the error message of the catch handler shows)
\* and the button is enabled again under its label.
C27_Witness ==
    /\ fetchCalls > 0
    /\ request = <<>>
    /\ formMessage.textContent = SendError
    /\ submitButton = [innerHTML |-> "Send Message", disabled |-> FALSE]

\* C25: after any clicks on the toggle and on the links of the menu, from the
\* closed menu showing the bars, the icon has fa-times exactly when the menu
\* has active, and has one of fa-bars and fa-times, not both.
C25_IconFollowsMenu ==
    /\ "fa-times" \in icon <=> "active" \in navMenu
    /\ "fa-bars" \in icon <=> "fa-times" \notin icon

\* C25: the menu is open and the icon shows the times.
C25_Witness ==
    /\ "active" \in navMenu
    /\ "fa-times" \in icon
    /\ "fa-bars" \notin icon

\* The number a stat shows.
Shown(stat) == ParseInt(stat.textContent)

\* C28: each stat is animated at most once, by one interval; while it is
\* animated the number shown does not pass the target and step by step does
\* not decrease; the step that clears the interval shows the target; and
\* every interval set is cleared in the end.
C28_CounterAnimation ==
    /\ [](\A i \in 1..Len(stats) :
             /\ stats[i].animations <= 1
             /\ Len(stats[i].intervals) <= stats[i].animations
             /\ \A j \in 1..Len(stats[i].intervals) :
                   /\ stats[i].intervals[j].target > 0
                   /\ Shown(stats[i]) >= 0
                   /\ Shown(stats[i]) <= stats[i].intervals[j].target)
    /\ [][\A i \in 1..Len(stats) :
             stats[i].intervals # <<>> =>
                 /\ Shown(stats'[i]) >= Shown(stats[i])
                 /\ stats'[i].intervals = <<>> =>
                       stats'[i].textContent = NumberText(stats[i].intervals[1].target)]_vars
    /\ \A i \in 1..MaxStats :
          (i <= Len(stats) /\ stats[i].intervals # <<>>)
              ~> (i <= Len(stats) /\ stats[i].intervals = <<>>)

\* C28: the stat written "24/7" has been counted up to 247 and its interval
\* is cleared.
C28_Witness ==
    /\ stats # <<>>
    /\ stats[1].animations = 1
    /\ stats[1].intervals = <<>>
    /\ stats[1].textContent = <<"2", "4", "7">>
    /\ ~observing

\* The lines the wrapper has printed.
Printed == {shOutput[i] : i \in 1..Len(shOutput)}

\* C29: for report, alert, optimize and all (the default), on a machine
\* where node and the dependencies are in place but the AWS CLI is missing or
\* not configured, the wrapper has printed the warning and has run node
\* cost-monitor.js by the time it ends.
C29_WarnsAndRunsNode ==
    (/\ shPc = "exited"
     /\ CommandWord(shCommand) \in {"report", "alert", "optimize", "all"}
     /\ shEnv.node >= 14
     /\ shEnv.modules
     /\ shEnv.aws \in {"missing", "unconfigured"}) =>
        /\ Printed \cap {AwsMissing, AwsUnconfigured} # {}
        /\ shNode # <<>>

\* The hostname is an entry of allowedDomains or a subdomain of one.
UnderAllowedDomain(domain) ==
    \E k \in 1..Len(allowedDomains) :
        LET allowed == allowedDomains[k]
        IN  \/ domain = allowed
            \/ /\ Len(domain) > Len(allowed)
               /\ SubSeq(domain, Len(domain) - Len(allowed), Len(domain))
                    = <<".">> \o allowed

\* C30: once validateSecurity has returned, its warnings hold a
\* non-whitelisted-domain warning for every external resource whose hostname
\* is neither an entry of allowedDomains nor a subdomain of one, a hostname
\* that only contains an allowed domain included.
C30_EveryForeignHostReported ==
    results # <<>> =>
        \A i \in 1..Len(document.externalLinks) :
            ~UnderAllowedDomain(document.externalLinks[i]) =>
                \E w \in 1..Len(results[1].warnings) :
                    results[1].warnings[w]
                        = NonWhitelisted(document.externalLinks[i])

====
